---- MODULE Spec2Model ----
(***************************************************************************)
(* The buffered transform of xmlsec (src/src/buffered.c): one node of a    *)
(* transform chain that gathers all of its input in an xmlBuffer, runs the *)
(* bufferedProcess callback of its id on it and hands the result on.       *)
(*                                                                         *)
(* One action per exported function.  The calls a function makes on its    *)
(* neighbours (xmlSecBinTransformRead on prev, xmlSecBinTransformWrite and *)
(* xmlSecBinTransformFlush on next), on libxml2 (xmlBufferCreate) and on   *)
(* the callback are part of the action; what they answer is an input of    *)
(* the action.  The node is a buffered transform, so the sub type check    *)
(* at the head of every function passes.                                   *)
(***************************************************************************)
EXTENDS Integers, Sequences, FiniteSets, TLC

\* ------------------------------------------------------------------ bounds
\* longest content the previous transform holds
MaxUp == 2
\* largest size argument of one Read or Write call
MaxSize == 2
\* most bytes the driver hands to Write over the life of the node
MaxWritten == 2
\* most calls of xmlSecBufferedProcess made by Flush over the life of the node
MaxFlushProcess == 2

\* The code never looks at a byte, so a byte is named by where it comes from
\* and its place there: the i-th byte the previous transform holds, the i-th
\* byte the driver hands to Write, and the byte the "marker" callback appends.
UpByte(i) == <<"prev", i>>
WriteByte(i) == <<"driver", i>>
Marker == <<"marker", 0>>

NULL == "NULL"
xmlSecTransformStatusNone == "None"
xmlSecTransformStatusOk == "Ok"

\* the kinds of bufferedProcess an id can carry: none, the identity, and
\* one that appends a marker to the content
Callbacks == {NULL, "identity", "marker"}

\* the content of n bytes the previous transform holds at the start
UpContent(n) == [i \in 1..n |-> UpByte(i)]

\* the next n bytes of the driver, after the `done` it has handed over
WriteContent(done, n) == [i \in 1..n |-> WriteByte(done + i)]

IsPrefix(s, t) == Len(s) <= Len(t) /\ SubSeq(t, 1, Len(s)) = s

Min(a, b) == IF a <= b THEN a ELSE b

VARIABLES
    status,       \* buffered->status
    buffer,       \* buffered->buffer: [ptr, content]
    prev,         \* buffered->prev
    next,         \* buffered->next
    callback,     \* buffered->id->bufferedProcess
    upstream,     \* what the previous transform has still to deliver
    upTotal,      \* history: what the previous transform held at the start
    readOut,      \* history: the bytes Read has copied to its callers
    written,      \* history: the bytes of the Write calls that returned 0
    nextWrites,   \* history: the contents given to next's Write, in order
    nextFlushes,  \* history: number of calls of next's Flush
    accProcess,   \* history: calls of xmlSecBufferedProcess on the buffer
    flushProcess, \* history: calls of xmlSecBufferedProcess made by Flush
    procOut,      \* history: content after the last Process that succeeded
    nCreate,      \* history: buffers created
    prevEof,      \* history: prev's Read has returned 0 to this node
    destroyed,    \* history: xmlSecBufferedDestroy has been called
    doubleFree,   \* history: xmlBufferFree was called on a freed buffer
    driver,       \* history: the shape of the call sequence so far
    last          \* history: the last call, its result and what it did
                  \* (size: the size of a Read that got to hand out bytes)

vars == <<status, buffer, prev, next, callback, upstream, upTotal, readOut,
          written, nextWrites, nextFlushes, accProcess, flushProcess, procOut,
          nCreate, prevEof, destroyed, doubleFree, driver, last>>

\* ---------------------------------------------------------------- libxml2
NullBuffer == [ptr |-> NULL, content |-> <<>>]

\* xmlBufferCreate: a new, empty buffer
xmlBufferCreate == [ptr |-> "live", content |-> <<>>]

xmlBufferAdd_Prepend(content, bytes) == bytes \o content

\* xmlBufferAdd: the bytes go to the end of the content.  The code does not
\* look at what xmlBufferAdd returns; it is taken to succeed.
xmlBufferAdd(content, bytes) == content \o bytes

xmlBufferShrink_OneLess(content, n) == SubSeq(content, n, Len(content))

\* xmlBufferShrink: the first n bytes are removed
xmlBufferShrink(content, n) == SubSeq(content, n + 1, Len(content))

\* ------------------------------------------------------------ the callback
\* what bufferedProcess makes of the content when it succeeds
CallbackResult(cb, content) ==
    IF cb = "marker" THEN Append(content, Marker) ELSE content

\* xmlSecBufferedProcess: the callback if the id has one, and 0 otherwise.
\* A callback that fails is taken to leave the content as it found it.
xmlSecBufferedProcess(cb, content, ok) ==
    IF cb # NULL
    THEN IF ok THEN [ret |-> 0, content |-> CallbackResult(cb, content)]
               ELSE [ret |-> -1, content |-> content]
    ELSE [ret |-> 0, content |-> content]

\* ---------------------------------------------------- the previous transform
\* the ways to hand over n bytes in calls of 1..size bytes each
RECURSIVE Chunkings(_, _)
Chunkings(n, size) ==
    IF n = 0 THEN {<<>>}
    ELSE UNION {{<<k>> \o t : t \in Chunkings(n - k, size)} :
                k \in 1..Min(n, size)}

\* What xmlSecBinTransformRead on prev can return over the calls of one
\* drain: some calls that give 1..size bytes of what it holds, and then
\* either an error (-1) or, when nothing is left, 0.
Answers(up, size) ==
    UNION {{c \o <<-1>> : c \in Chunkings(e, size)} : e \in 0..Len(up)}
    \cup {c \o <<0>> : c \in Chunkings(Len(up), size)}

\* xmlSecBinTransformRead on prev with the return value `answer`: the bytes
\* come from the front of what prev holds
PrevRead(up, answer) ==
    IF answer < 0 THEN [ret |-> -1, bytes |-> <<>>, up |-> up]
    ELSE [ret |-> answer, bytes |-> SubSeq(up, 1, answer),
          up |-> SubSeq(up, answer + 1, Len(up))]

\* the do ... while(ret > 0) loop of Read
\* (rets: what prev's Read returned, call by call)
RECURSIVE Drain(_, _, _, _, _)
Drain(content, up, size, answers, rets) ==
    LET r == PrevRead(up, Head(answers))
    IN  IF r.ret < 0
        THEN [ret |-> -1, content |-> content, up |-> r.up,
              rets |-> Append(rets, r.ret)]
        ELSE IF r.ret > 0
        THEN Drain(xmlBufferAdd(content, r.bytes), r.up, size,
                   Tail(answers), Append(rets, r.ret))
        ELSE [ret |-> 0, content |-> content, up |-> r.up,
              rets |-> Append(rets, r.ret)]

\* ------------------------------------------------------------------- guards
ReadNothing_NoPrevCheck == status # xmlSecTransformStatusNone

\* Read, line 67: nothing to read
ReadNothing == status # xmlSecTransformStatusNone \/ prev = NULL

WriteNothing_NoStatusCheck == next = NULL

\* Write, line 151: nothing to write
WriteNothing == status # xmlSecTransformStatusNone \/ next = NULL

FlushNothing_NoNextCheck ==
    status # xmlSecTransformStatusNone \/ buffer.ptr = NULL

\* Flush, lines 192-193: nothing to flush
FlushNothing ==
    status # xmlSecTransformStatusNone \/ next = NULL \/ buffer.ptr = NULL

\* -------------------------------------------------------------------- Init
Init ==
    /\ status = xmlSecTransformStatusNone
    /\ buffer = NullBuffer
    /\ prev \in {NULL, "prev"}
    /\ next \in {NULL, "next"}
    /\ callback \in Callbacks
    /\ upstream \in {UpContent(n) : n \in (IF prev = NULL THEN {0} ELSE 0..MaxUp)}
    /\ upTotal = upstream
    /\ readOut = <<>>
    /\ written = <<>>
    /\ nextWrites = <<>>
    /\ nextFlushes = 0
    /\ accProcess = 0
    /\ flushProcess = 0
    /\ procOut = <<>>
    /\ nCreate = 0
    /\ prevEof = FALSE
    /\ destroyed = FALSE
    /\ doubleFree = FALSE
    /\ driver = "start"
    /\ last = [op |-> "none", ret |-> 0, fail |-> "", size |-> 0, out |-> <<>>,
               preStatus |-> status, preBuffer |-> buffer,
               nPrevRead |-> 0, nProcess |-> 0, nNextWrite |-> 0,
               nNextFlush |-> 0, events |-> <<>>]

\* the record of a call that returned ret and changed nothing
Returned(ret, fail) ==
    [ret |-> ret, fail |-> fail, out |-> <<>>, status |-> status,
     buffer |-> buffer, upstream |-> upstream, procOut |-> procOut,
     nextWrites |-> nextWrites, size |-> 0,
     nPrevRead |-> 0, nProcess |-> 0, nNextWrite |-> 0, nNextFlush |-> 0,
     created |-> 0, freed |-> 0, eof |-> FALSE, events |-> <<>>]

LiveBuffer(content) == [ptr |-> "live", content |-> content]

\* one thing a call did, for the `events` of the call: a call of prev's Read
\* ("prevRead"), of xmlSecBufferedProcess ("Process"), of next's Write
\* ("nextWrite") or Flush ("nextFlush") with what it returned, or the
\* status set to Ok and the buffer freed ("done")
Event(what, ret) == <<what, ret>>

\* -------------------------------------------------------------------- Read
ReadDeliver_StrictLess(r, content, size) ==
    LET res == Len(content)
    IN  IF res < size
        THEN [r EXCEPT !.ret = res, !.out = content, !.size = size,
                       !.status = xmlSecTransformStatusOk,
                       !.buffer = NullBuffer, !.freed = 1,
                       !.events = Append(r.events, Event("done", 0))]
        ELSE [r EXCEPT !.ret = size, !.out = SubSeq(content, 1, size),
                       !.size = size,
                       !.buffer = LiveBuffer(xmlBufferShrink(content, size))]

ReadDeliver_NeverDone(r, content, size) ==
    LET res == Min(Len(content), size)
    IN  [r EXCEPT !.ret = res, !.out = SubSeq(content, 1, res), !.size = size,
                  !.buffer = LiveBuffer(xmlBufferShrink(content, res))]

\* Read, lines 105-119: hand out the front of the buffer; the buffer goes
\* and the transform is done when all of it fits
ReadDeliver(r, content, size) ==
    LET res == Len(content)
    IN  IF res <= size
        THEN [r EXCEPT !.ret = res, !.out = content, !.size = size,
                       !.status = xmlSecTransformStatusOk,
                       !.buffer = NullBuffer, !.freed = 1,
                       !.events = Append(r.events, Event("done", 0))]
        ELSE [r EXCEPT !.ret = size, !.out = SubSeq(content, 1, size),
                       !.size = size,
                       !.buffer = LiveBuffer(xmlBufferShrink(content, size))]

\* Read, lines 72-103: create the buffer, read everything from prev, process
ReadFill(size, createOk, answers, procOk) ==
    IF ~createOk THEN Returned(-1, "create")
    ELSE
    LET d == Drain(xmlBufferCreate.content, upstream, size, answers, <<>>)
        r == [Returned(0, "") EXCEPT
                !.created = 1, !.upstream = d.up,
                !.nPrevRead = Len(d.rets), !.eof = (d.ret = 0),
                !.events = [i \in 1..Len(d.rets) |->
                              Event("prevRead", d.rets[i])],
                !.buffer = LiveBuffer(d.content)]
    IN  IF d.ret < 0 THEN [r EXCEPT !.ret = -1, !.fail = "prevRead"]
        ELSE
        LET p == xmlSecBufferedProcess(callback, d.content, procOk)
            q == [r EXCEPT !.nProcess = 1,
                           !.events = Append(r.events, Event("Process", p.ret))]
        IN  IF p.ret < 0
            THEN [q EXCEPT !.ret = -1, !.fail = "process",
                           !.buffer = LiveBuffer(p.content)]
            ELSE ReadDeliver([q EXCEPT !.procOut = p.content], p.content, size)

\* xmlSecBufferedTransformRead, lines 46-120
xmlSecBufferedTransformRead(bufGiven, size, createOk, answers, procOk) ==
    IF ~bufGiven \/ size = 0 THEN Returned(0, "")
    ELSE IF ReadNothing THEN Returned(0, "")
    ELSE IF buffer.ptr = NULL THEN ReadFill(size, createOk, answers, procOk)
    ELSE ReadDeliver(Returned(0, ""), buffer.content, size)

\* what a call leaves in `last`
LastOf(op, r) ==
    [op |-> op, ret |-> r.ret, fail |-> r.fail, size |-> r.size, out |-> r.out,
     preStatus |-> status, preBuffer |-> buffer,
     nPrevRead |-> r.nPrevRead, nProcess |-> r.nProcess,
     nNextWrite |-> r.nNextWrite, nNextFlush |-> r.nNextFlush,
     events |-> r.events]

\* the state a call leaves behind
Apply(op, r) ==
    /\ status' = r.status
    /\ buffer' = r.buffer
    /\ upstream' = r.upstream
    /\ procOut' = r.procOut
    /\ nextWrites' = r.nextWrites
    /\ nextFlushes' = nextFlushes + r.nNextFlush
    /\ readOut' = readOut \o r.out
    /\ accProcess' = (IF r.created = 1 THEN 0 ELSE accProcess) + r.nProcess
    /\ nCreate' = nCreate + r.created
    /\ prevEof' = (prevEof \/ r.eof)
    /\ doubleFree' = (doubleFree \/ (r.freed = 1 /\ buffer.ptr = "freed"))
    /\ last' = LastOf(op, r)
    /\ UNCHANGED <<prev, next, callback, upTotal>>

\* Read gets as far as xmlBufferCreate (line 77)
ReadCreates(bufGiven, size) ==
    bufGiven /\ size > 0 /\ ~ReadNothing /\ buffer.ptr = NULL

\* the answers of xmlBufferCreate (a buffer or NULL) when it is called, and
\* of the callback (success or failure) when there is one
CreateAnswers(called) == IF called THEN BOOLEAN ELSE {TRUE}
ProcessAnswers(called) ==
    IF called /\ callback # NULL THEN BOOLEAN ELSE {TRUE}

\* the size arguments of a call: any size with a buffer, and one with none
Sizes(bufGiven) == IF bufGiven THEN 0..MaxSize ELSE {MaxSize}

\* one call of Read: its arguments and what the calls it makes answer
ReadCall(bufGiven, size, createOk, procOk, answers) ==
    /\ ~destroyed
    /\ LET r == xmlSecBufferedTransformRead(bufGiven, size, createOk,
                                            answers, procOk)
       IN  /\ Apply("Read", r)
           /\ driver' = IF /\ driver \in {"start", "reading"}
                           /\ bufGiven /\ size >= 1
                           /\ r.fail \notin {"prevRead", "process"}
                        THEN "reading" ELSE "mixed"
    /\ UNCHANGED <<written, flushProcess, destroyed>>

\* what prev answers in a call of Read that gets to ask it
ReadAnswers(bufGiven, size, createOk) ==
    IF ReadCreates(bufGiven, size) /\ createOk
    THEN Answers(upstream, size) ELSE {<<-1>>}

Read ==
    \E bufGiven \in BOOLEAN :
    \E size \in Sizes(bufGiven) :
    \E createOk \in CreateAnswers(ReadCreates(bufGiven, size)) :
    \E procOk \in ProcessAnswers(ReadCreates(bufGiven, size) /\ createOk) :
    \E answers \in ReadAnswers(bufGiven, size, createOk) :
        ReadCall(bufGiven, size, createOk, procOk, answers)

\* ------------------------------------------------------------------- Write
\* xmlSecBufferedTransformWrite, lines 132-167
xmlSecBufferedTransformWrite(bufGiven, bytes, createOk) ==
    IF ~bufGiven \/ Len(bytes) = 0 THEN Returned(0, "")
    ELSE IF WriteNothing THEN Returned(0, "")
    ELSE IF buffer.ptr = NULL
    THEN IF ~createOk THEN Returned(-1, "create")
         ELSE [Returned(0, "") EXCEPT
                 !.created = 1,
                 !.buffer = LiveBuffer(xmlBufferAdd(xmlBufferCreate.content,
                                                    bytes))]
    ELSE [Returned(0, "") EXCEPT
            !.buffer = LiveBuffer(xmlBufferAdd(buffer.content, bytes))]

\* Write gets as far as xmlBufferCreate (line 157)
WriteCreates(bufGiven, size) ==
    bufGiven /\ size > 0 /\ ~WriteNothing /\ buffer.ptr = NULL

Write ==
    /\ ~destroyed
    /\ \E bufGiven \in BOOLEAN :
       \E size \in Sizes(bufGiven) :
       \E createOk \in CreateAnswers(WriteCreates(bufGiven, size)) :
          LET bytes == WriteContent(Len(written), size)
              r == xmlSecBufferedTransformWrite(bufGiven, bytes, createOk)
              given == IF bufGiven /\ r.ret = 0 THEN bytes ELSE <<>>
          IN  /\ Len(written) + Len(given) <= MaxWritten
              /\ Apply("Write", r)
              /\ written' = written \o given
              /\ driver' = IF driver \in {"start", "writing"}
                           THEN "writing" ELSE "mixed"
    /\ UNCHANGED <<flushProcess, destroyed>>

\* ------------------------------------------------------------------- Flush
\* Flush, lines 198-229: process, write to next, finish, flush next
FlushBuffer(procOk, writeOk, flushOk) ==
    LET p == xmlSecBufferedProcess(callback, buffer.content, procOk)
        r == [Returned(0, "") EXCEPT !.nProcess = 1,
                                     !.events = <<Event("Process", p.ret)>>,
                                     !.buffer = LiveBuffer(p.content)]
    IN  IF p.ret < 0 THEN [r EXCEPT !.ret = -1, !.fail = "process"]
        ELSE
        LET wret == IF writeOk THEN 0 ELSE -1
            w == [r EXCEPT !.procOut = p.content, !.nNextWrite = 1,
                           !.nextWrites = Append(nextWrites, p.content),
                           !.events = Append(r.events,
                                             Event("nextWrite", wret))]
        IN  IF wret < 0 THEN [w EXCEPT !.ret = -1, !.fail = "nextWrite"]
            ELSE
            LET fret == IF flushOk THEN 0 ELSE -1
                f == [w EXCEPT !.status = xmlSecTransformStatusOk,
                               !.buffer = NullBuffer, !.freed = 1,
                               !.nNextFlush = 1,
                               !.events = w.events \o
                                   <<Event("done", 0),
                                     Event("nextFlush", fret)>>]
            IN  IF fret < 0 THEN [f EXCEPT !.ret = -1, !.fail = "nextFlush"]
                ELSE f

xmlSecBufferedTransformFlush_DoneOnWriteError(procOk, writeOk, flushOk) ==
    IF FlushNothing THEN Returned(0, "")
    ELSE LET f == FlushBuffer(procOk, writeOk, flushOk)
         IN  IF f.fail = "nextWrite"
             THEN [f EXCEPT !.status = xmlSecTransformStatusOk,
                            !.buffer = NullBuffer, !.freed = 1]
             ELSE f

xmlSecBufferedTransformFlush_NoNextFlush(procOk, writeOk, flushOk) ==
    IF FlushNothing THEN Returned(0, "")
    ELSE LET f == FlushBuffer(procOk, writeOk, TRUE)
         IN  [f EXCEPT !.nNextFlush = 0,
                       !.events = SelectSeq(f.events,
                                            LAMBDA e : e[1] # "nextFlush")]

\* xmlSecBufferedTransformFlush, lines 177-230
xmlSecBufferedTransformFlush(procOk, writeOk, flushOk) ==
    IF FlushNothing THEN Returned(0, "")
    ELSE FlushBuffer(procOk, writeOk, flushOk)

Flush ==
    /\ ~destroyed
    /\ \E procOk \in ProcessAnswers(~FlushNothing) :
       \E writeOk \in (IF FlushNothing \/ ~procOk THEN {TRUE} ELSE BOOLEAN) :
       \E flushOk \in (IF FlushNothing \/ ~procOk \/ ~writeOk
                        THEN {TRUE} ELSE BOOLEAN) :
          LET r == xmlSecBufferedTransformFlush(procOk, writeOk, flushOk)
          IN  /\ flushProcess + r.nProcess <= MaxFlushProcess
              /\ Apply("Flush", r)
              /\ flushProcess' = flushProcess + r.nProcess
              /\ driver' = CASE driver \in {"start", "writing"} -> "flushed"
                             [] driver = "flushed" -> "reflushed"
                             [] OTHER -> "mixed"
    /\ UNCHANGED <<written, destroyed>>

\* ----------------------------------------------------------------- Destroy
xmlSecBufferedDestroy_NoFree == Returned(0, "")

\* xmlSecBufferedDestroy, lines 238-246: the buffer is freed and the pointer
\* is left as it was
xmlSecBufferedDestroy ==
    IF buffer.ptr # NULL
    THEN [Returned(0, "") EXCEPT !.freed = 1,
                                 !.buffer = [ptr |-> "freed", content |-> <<>>]]
    ELSE Returned(0, "")

Destroy ==
    /\ Apply("Destroy", xmlSecBufferedDestroy)
    /\ destroyed' = TRUE
    /\ driver' = "mixed"
    /\ UNCHANGED <<written, flushProcess>>

Next == Read \/ Write \/ Flush \/ Destroy

Spec == Init /\ [][Next]_vars

\* A driver that only reads, and that again and again makes a Read with a
\* buffer and a size of 1 or more in which xmlBufferCreate gives a buffer
\* and the callback succeeds (prev may answer with an error).
ReadProgress ==
    \E size \in 1..MaxSize :
    \E answers \in ReadAnswers(TRUE, size, TRUE) :
        ReadCall(TRUE, size, TRUE, TRUE, answers)

ReadSpec == Init /\ [][Read]_vars /\ WF_vars(ReadProgress)

TypeOK ==
    /\ status \in {xmlSecTransformStatusNone, xmlSecTransformStatusOk}
    /\ buffer.ptr \in {NULL, "live", "freed"}
    /\ nCreate <= 1

\* ==================================================================== claims
\* what the callback makes of the whole content of the previous transform
Processed(content) == CallbackResult(callback, content)

\* the last call changed neither status nor buffer
LastChangedNothing == status = last.preStatus /\ buffer = last.preBuffer

\* the last call reached neither the callback nor a neighbour
LastCalledNothing ==
    /\ last.nProcess = 0
    /\ last.nPrevRead = 0
    /\ last.nNextWrite = 0
    /\ last.nNextFlush = 0

\* C1: the process callback runs at most once on any one buffer, from
\* xmlBufferCreate to xmlBufferFree, whatever Read, Write and Flush calls
\* are made and whichever of them fail.
C1_ProcessOncePerAccumulator == callback # NULL => accProcess <= 1

\* C2: a Read or a Flush that returns an error leaves status and the buffer
\* (whether there is one, and its content) as they were before the call.
C2_FailedCallChangesNothing ==
    (last.op \in {"Read", "Flush"} /\ last.ret < 0) => LastChangedNothing

\* C3: on a node with a previous transform, when the driver only calls Read
\* with sizes of 1 or more and neither prev nor the callback fails, the bytes
\* handed out so far are a prefix of Processed(upTotal); they are all of it
\* once the node is done; a Read returns 0 only when the node is done; and a
\* Read on the node once it is done returns 0.
C3_PartialDelivery ==
    (driver = "reading" /\ prev # NULL) =>
        /\ IsPrefix(readOut, Processed(upTotal))
        /\ (status = xmlSecTransformStatusOk => readOut = Processed(upTotal))
        /\ (last.ret = 0 => status = xmlSecTransformStatusOk)
        /\ (last.preStatus = xmlSecTransformStatusOk => last.ret = 0)

\* C3 witness: the content and the marker have come out over several Reads
\* and a further Read has returned 0.
C3_Witness ==
    /\ driver = "reading" /\ prev # NULL /\ callback = "marker"
    /\ Len(upTotal) = MaxUp
    /\ readOut = Append(upTotal, Marker)
    /\ last.preStatus = xmlSecTransformStatusOk /\ last.ret = 0

\* the driver has made Write calls and then one Flush on a node with a next
\* transform and the identity callback, and the callback has not failed
WritesThenFlush ==
    /\ driver = "flushed" /\ next # NULL /\ callback = "identity"
    /\ last.fail # "process"

\* C4 as stated: after Write calls that gave the bytes `written` and one
\* Flush, with the identity callback, next's Write has been called exactly
\* once, with exactly those bytes in their order.
C4_Original == WritesThenFlush => nextWrites = <<written>>

\* C4 as amended: the same when at least one byte was written; when none
\* was, Flush finds no buffer and next's Write is not called.
C4_Passthrough ==
    WritesThenFlush =>
        nextWrites = IF written = <<>> THEN <<>> ELSE <<written>>

\* C4 witness: all the bytes of the driver went to next in one Write.
C4_Witness ==
    /\ WritesThenFlush
    /\ Len(written) = MaxWritten
    /\ nextWrites = <<written>>

\* C5: after Write calls that gave at least one byte and one Flush, the
\* callback has run exactly once; a second Flush runs neither the callback
\* nor next's Write or Flush, changes nothing and returns 0.
C5_NoDoubleProcessing ==
    (next # NULL /\ callback # NULL /\ written # <<>>) =>
        /\ (driver = "flushed" => accProcess = 1)
        /\ (driver = "reflushed" =>
                /\ last.ret = 0
                /\ LastCalledNothing
                /\ LastChangedNothing)

\* C6: a call on a node that is done leaves it done, returns 0, leaves it
\* without a buffer, hands out nothing and reaches neither the callback nor
\* a neighbour.
C6_FinalizedIsTerminal ==
    last.preStatus = xmlSecTransformStatusOk =>
        /\ status = xmlSecTransformStatusOk
        /\ last.ret = 0
        /\ last.out = <<>>
        /\ buffer = last.preBuffer
        /\ buffer.ptr = NULL
        /\ LastCalledNothing

\* C6 witness: a Write on a node that a Flush has finished.
C6_Witness ==
    /\ last.preStatus = xmlSecTransformStatusOk
    /\ last.op = "Write"
    /\ nextFlushes = 1
    /\ written # <<>>

\* C7: the bytes Read has handed out so far, in call order, are a prefix of
\* what the callback produced; Read hands out nothing the callback has not
\* produced.
C7_ReadIsPrefixOfProcessOutput == IsPrefix(readOut, procOut)

\* C8: over the life of the node Flush calls xmlSecBufferedProcess at most
\* once, and what Flush gives to next's Write is the output of Process.
C8_FlushProcessesOnce ==
    /\ flushProcess <= 1
    /\ (nextWrites # <<>> => nextWrites[Len(nextWrites)] = procOut)

\* C9: a Read on a node without a previous transform returns 0, changes
\* neither status nor buffer, hands out nothing and reaches neither the
\* callback nor a neighbour.
C9_NoPrevReadIsInert ==
    (last.op = "Read" /\ prev = NULL) =>
        /\ last.ret = 0
        /\ last.out = <<>>
        /\ LastChangedNothing
        /\ LastCalledNothing

\* C9 witness: a Read on a node without a previous transform that holds a
\* buffer filled by Write.
C9_Witness ==
    /\ last.op = "Read" /\ prev = NULL
    /\ buffer.ptr = "live" /\ buffer.content # <<>>

\* C10: a Write or a Flush on a node without a next transform returns 0,
\* changes neither status nor buffer and reaches neither the callback nor a
\* neighbour.
C10_NoNextWriteFlushAreInert ==
    (last.op \in {"Write", "Flush"} /\ next = NULL) =>
        /\ last.ret = 0
        /\ LastChangedNothing
        /\ LastCalledNothing

\* C10 witness: a Flush on a node without a next transform that holds the
\* rest of a buffer after a Read handed out its front.
C10_Witness ==
    /\ last.op = "Flush" /\ next = NULL
    /\ status = xmlSecTransformStatusNone
    /\ buffer.ptr = "live" /\ readOut # <<>>

\* C11: Destroy frees the buffer if there is one, leaves status as it was,
\* and leaves the node so that a further Destroy frees nothing.
C11_DestroyIsIdempotent ==
    last.op = "Destroy" =>
        /\ status = last.preStatus
        /\ buffer.ptr # "live"
        /\ ~doubleFree

\* C12: between calls of Read, Write and Flush the node has no buffer or a
\* buffer with at least one byte in it.
C12_NoEmptyAccumulator ==
    ~destroyed => (buffer.ptr = NULL \/ buffer.content # <<>>)

\* the bytes the last Write call handed over, seen from the step
WrittenNow == SubSeq(written', Len(written) + 1, Len(written'))

\* C13: a Write that returns 0 on a node with status None and a next
\* transform puts exactly its bytes at the end of the buffer (which it
\* creates if there is none and there is a byte to put); no Write changes
\* status or reaches the callback or next.
C13_WriteAppends ==
    [][last'.op = "Write" =>
         /\ status' = status
         /\ last'.events = <<>>
         /\ nextWrites' = nextWrites /\ nextFlushes' = nextFlushes
         /\ accProcess' = accProcess
         /\ (status = xmlSecTransformStatusNone /\ next # NULL
                 /\ last'.ret = 0) =>
                /\ buffer'.content = buffer.content \o WrittenNow
                /\ (WrittenNow # <<>> => buffer'.ptr = "live")
                /\ (WrittenNow = <<>> => buffer' = buffer)]_vars

\* C13 witness: two Writes have put the bytes of the driver, in call order,
\* behind what a Read left in the buffer.
C13_Witness ==
    /\ last.op = "Write" /\ next # NULL
    /\ status = xmlSecTransformStatusNone
    /\ readOut # <<>>
    /\ Len(written) = MaxWritten
    /\ Len(last.preBuffer.content) = Len(buffer.content) - 1
    /\ SubSeq(buffer.content, Len(buffer.content) - Len(written) + 1,
              Len(buffer.content)) = written

\* C14: a Read returns a number of bytes above 0 only if prev's Read has
\* returned 0 to the node, in this call or an earlier one.
C14_OutputOnlyAfterDrain ==
    (last.op = "Read" /\ last.ret > 0) => prevEof

\* C15: a Flush in which xmlSecBufferedProcess or next's Write fails returns
\* an error, leaves status None and the buffer in place and does not call
\* next's Flush.
C15_FailedFlushKeepsBuffer ==
    (last.op = "Flush" /\ last.fail \in {"process", "nextWrite"}) =>
        /\ last.ret < 0
        /\ status = xmlSecTransformStatusNone
        /\ buffer.ptr = "live"
        /\ last.nNextFlush = 0

\* C15 witness: next's Write failed on the output of the marker callback.
C15_Witness ==
    /\ last.op = "Flush" /\ last.fail = "nextWrite"
    /\ callback = "marker"
    /\ buffer.content = Append(written, Marker)

\* the last call was a Flush that found status None, a next transform and
\* a buffer
FlushHadWork ==
    /\ last.op = "Flush"
    /\ last.preStatus = xmlSecTransformStatusNone
    /\ next # NULL
    /\ last.preBuffer.ptr = "live"

\* the last content given to next's Write is all that the callback made of
\* the buffer the Flush found
WroteWholeOutput ==
    /\ nextWrites # <<>>
    /\ nextWrites[Len(nextWrites)] = Processed(last.preBuffer.content)

\* C16: a Flush that finds status None, a next transform and a buffer calls
\* Process once, then next's Write once with the whole content, then sets
\* status Ok and frees the buffer, then calls next's Flush once; it stops at
\* the first of Process and next's Write that fails; a Flush that returns 0
\* has done all four.  Any other Flush does none of them.
C16_FlushOrder ==
    last.op = "Flush" =>
        IF FlushHadWork
        THEN \/ last.events = <<Event("Process", -1)>>
             \/ /\ last.events = <<Event("Process", 0), Event("nextWrite", -1)>>
                /\ WroteWholeOutput
             \/ /\ \E f \in {0, -1} :
                      /\ last.events = <<Event("Process", 0),
                                         Event("nextWrite", 0),
                                         Event("done", 0),
                                         Event("nextFlush", f)>>
                      /\ last.ret = f
                /\ WroteWholeOutput
                /\ status = xmlSecTransformStatusOk
                /\ buffer = NullBuffer
        ELSE last.events = <<>> /\ LastCalledNothing /\ LastChangedNothing

\* C16 witness: a Flush that returned 0 after all four steps, on what two
\* Writes had gathered.
C16_Witness ==
    /\ FlushHadWork /\ last.ret = 0
    /\ Len(last.events) = 4
    /\ callback = "marker"
    /\ nextWrites = <<Append(written, Marker)>>
    /\ Len(written) = MaxWritten

\* the content of the buffer when the last Read came to hand out bytes
Available ==
    IF last.nProcess = 1 THEN procOut ELSE last.preBuffer.content

\* C17: a Read that gets to hand out bytes (status None, a previous
\* transform, size maxSize > 0, no failure) returns the first
\* min(available, maxSize) bytes of the buffer; it sets status Ok and frees
\* the buffer exactly when available <= maxSize, and otherwise leaves
\* status None and the buffer without its first maxSize bytes.
C17_ReadDelivers ==
    (last.op = "Read" /\ last.size > 0) =>
        LET n == Min(Len(Available), last.size)
        IN  /\ last.ret = n
            /\ last.out = SubSeq(Available, 1, n)
            /\ (Len(Available) <= last.size <=>
                    status = xmlSecTransformStatusOk)
            /\ (Len(Available) <= last.size <=> buffer = NullBuffer)
            /\ (Len(Available) > last.size =>
                    /\ status = xmlSecTransformStatusNone
                    /\ buffer = LiveBuffer(SubSeq(Available, last.size + 1,
                                                  Len(Available))))

\* C17 witness: a Read whose size is exactly what the buffer holds, after
\* an earlier Read took the front.
C17_Witness ==
    /\ last.op = "Read" /\ last.size = MaxSize
    /\ Len(last.preBuffer.content) = MaxSize
    /\ last.nProcess = 0
    /\ Len(readOut) > MaxSize
    /\ status = xmlSecTransformStatusOk

\* what prev's Read returned in the last call, call by call
PrevReadReturns ==
    SelectSeq(last.events, LAMBDA e : e[1] = "prevRead")

\* the drain went on while prev's Read returned bytes and stopped at the
\* first return of 0 or an error
DrainStopsAtFirstEnd ==
    \A i \in 1..Len(PrevReadReturns) :
        (PrevReadReturns[i][2] > 0) <=> (i < Len(PrevReadReturns))

\* the node is done and a Read has returned 0
DoneAndReadZero ==
    /\ status = xmlSecTransformStatusOk
    /\ last.op = "Read" /\ last.ret = 0

\* C18: the drain of a Read stops at the first answer of prev that is 0 or
\* an error; and when the driver keeps making Reads of size 1 or more in
\* which xmlBufferCreate and the callback succeed, a node with a previous
\* transform gets done and a Read returns 0.
C18_Termination ==
    /\ []DrainStopsAtFirstEnd
    /\ (prev # NULL => <>DoneAndReadZero)

\* C18 witness: the whole content and the marker came out, which takes
\* more than one Read, and a Read on the finished node has returned 0.
C18_Witness ==
    /\ DoneAndReadZero
    /\ prev # NULL /\ prevEof /\ callback = "marker"
    /\ Len(upTotal) = MaxUp
    /\ Len(readOut) = MaxUp + 1
    /\ last.preStatus = xmlSecTransformStatusOk

\* C19: a node with status Ok has no buffer; a Read or Flush frees the
\* buffer exactly when it sets status Ok.
C19_FinalizedHasNoBuffer ==
    /\ status = xmlSecTransformStatusOk => buffer = NullBuffer
    /\ (last.op \in {"Read", "Flush"} /\ last.preBuffer.ptr = "live") =>
           (buffer.ptr = NULL <=> status = xmlSecTransformStatusOk)

\* C19 witness: a Write on a node that a Read has finished, with a next
\* transform to write to.
C19_Witness ==
    /\ status = xmlSecTransformStatusOk
    /\ last.op = "Write" /\ next # NULL
    /\ readOut # <<>> /\ written # <<>>

\* the state after the first Destroy
DestroyedOnce == destroyed /\ last.preBuffer.ptr # "freed"

\* C20: after calls of Read, Write and Flush and then one Destroy, a buffer
\* that was created has been freed, by the Read or Flush that set status Ok
\* or by Destroy, and no buffer has been freed twice.
C20_ReleasedOnce ==
    DestroyedOnce =>
        /\ buffer.ptr # "live"
        /\ ~doubleFree
        /\ (nCreate = 0 => buffer.ptr = NULL)
        /\ (buffer.ptr = "freed" => last.preBuffer.ptr = "live")
        /\ (status = xmlSecTransformStatusOk => buffer.ptr = NULL)

\* C20 witness: Destroy freed the buffer a failed Read had left.
C20_Witness ==
    /\ DestroyedOnce
    /\ buffer.ptr = "freed"
    /\ last.preBuffer.content # <<>>
    /\ readOut = <<>> /\ written = <<>>

====
